---- MODULE Spec2Model ----
(***************************************************************************)
(* Model of call_dashboard.py: the normalizer (clean_and_normalize), the   *)
(* master store (read_master / save_master / append_to_master) and the     *)
(* pages that write the store (Upload Data, Manual Entry).                 *)
(*                                                                         *)
(* A table cell is a record [k, v]: k is the Python type of the value the  *)
(* DataFrame holds ("null" for None/NaN/NaT, "num" for int/float, "str",   *)
(* "date" for datetime.date, "ts" for pandas.Timestamp) and v is the value *)
(* written as a sequence of one-character strings (a decimal numeral, the  *)
(* text of a string, an ISO date).  Conversions work on the characters.    *)
(*                                                                         *)
(* What the pandas calls of the script do is modelled as follows.          *)
(*   - pd.read_excel returns a column of date cells as datetime64, so its  *)
(*     values are Timestamps; clean_and_normalize turns the Date column    *)
(*     into datetime.date objects (.dt.date).  read_master does not        *)
(*     normalize what it read.                                             *)
(*   - pd.concat of a datetime64 column and a column of datetime.date      *)
(*     objects is an object column; drop_duplicates compares its values as *)
(*     Python objects, and a Timestamp is not equal to a datetime.date.    *)
(*     Missing values (None, NaN, NaT) are all one value for it.           *)
(*   - Series == datetime.date on a datetime64 Series is False for every   *)
(*     row.                                                                *)
(*   - Series.unique().tolist() on datetime64 values gives integers or     *)
(*     Timestamps, by the pandas version; both are modelled.               *)
(***************************************************************************)
EXTENDS Integers, Sequences, FiniteSets, TLC

VARIABLES masterFile, ui, last, raw, once, twice, nstep

vars == <<masterFile, ui, last, raw, once, twice, nstep>>

storeVars == <<masterFile, ui, last>>

normVars == <<raw, once, twice, nstep>>

(***************************************************************************)
(* Bounds of the model.                                                    *)
(***************************************************************************)
MaxRawRows == 2

MaxBatch == 2

MaxMaster == 3

(***************************************************************************)
(* Schema                                                                  *)
(***************************************************************************)
REQUIRED_COLUMNS ==
    << "Date", "Employee Name", "Overall Calls", "Completed Calls", "Completed %",
       "Incoming Calls", "Incoming completed call", "Incoming %", "Outbound Calls",
       "Missed Calls", "Login Hours", "Cons Count", "Audit Count", "Fatal Count",
       "Total Points", "Achieve Points", "Productivity%" >>

RequiredSet == { REQUIRED_COLUMNS[i] : i \in DOMAIN REQUIRED_COLUMNS }

numeric_cols ==
    << "Overall Calls", "Completed Calls", "Missed Calls", "Login Hours",
       "Cons Count", "Audit Count", "Fatal Count", "Total Points",
       "Achieve Points", "Productivity%" >>

NumericSet == { numeric_cols[i] : i \in DOMAIN numeric_cols }

pct_cols == << "Completed %", "Incoming %" >>

PctSet == { pct_cols[i] : i \in DOMAIN pct_cols }

(***************************************************************************)
(* Cells                                                                   *)
(***************************************************************************)
Null == [k |-> "null", v |-> <<>>]

Num(s) == [k |-> "num", v |-> s]

Str(s) == [k |-> "str", v |-> s]

DateObj(s) == [k |-> "date", v |-> s]

Timestamp(s) == [k |-> "ts", v |-> s]

Zero == Num(<<"0">>)

IsNull(c) == c.k = "null"

Digits == {"0", "1", "2", "3", "4", "5", "6", "7", "8", "9"}

AllIn(s, S) == \A i \in DOMAIN s : s[i] \in S

IsDigits(s) == Len(s) > 0 /\ AllIn(s, Digits)

RECURSIVE StripLeadingZeros(_)
StripLeadingZeros(s) ==
    IF Len(s) > 1 /\ Head(s) = "0" THEN StripLeadingZeros(Tail(s)) ELSE s

RECURSIVE StripTrailingZeros(_)
StripTrailingZeros(s) ==
    IF Len(s) > 0 /\ s[Len(s)] = "0"
    THEN StripTrailingZeros(SubSeq(s, 1, Len(s) - 1))
    ELSE s

\* Index of the first "." of s, 0 when there is none.
DotAt(s) ==
    IF \E i \in DOMAIN s : s[i] = "."
    THEN CHOOSE i \in DOMAIN s : s[i] = "." /\ \A j \in 1..(i - 1) : s[j] # "."
    ELSE 0

\* The float a decimal string denotes, as a canonical numeral: [-]digits[.digits],
\* no leading zeros, no trailing zeros of the fraction, no "-0".  Null when the
\* string is no decimal number ("nan" parses to NaN, which is null as well).
\* Exponents, "inf" and surrounding blanks are not in the modelled fragment.
ParseNumber(s) ==
    LET neg   == Len(s) > 0 /\ Head(s) = "-"
        body  == IF Len(s) > 0 /\ Head(s) \in {"-", "+"} THEN Tail(s) ELSE s
        dot   == DotAt(body)
        ip    == IF dot = 0 THEN body ELSE SubSeq(body, 1, dot - 1)
        fp    == IF dot = 0 THEN <<>> ELSE SubSeq(body, dot + 1, Len(body))
        ipc   == StripLeadingZeros(ip)
        fpc   == StripTrailingZeros(fp)
        mag   == IF fpc = <<>> THEN ipc ELSE ipc \o <<".">> \o fpc
    IN  IF IsDigits(ip) /\ AllIn(fp, Digits)
        THEN Num(IF neg /\ mag # <<"0">> THEN <<"-">> \o mag ELSE mag)
        ELSE Null

\* pd.to_numeric(..., errors="coerce") on one cell of an object column.
ToNumeric(c) ==
    CASE c.k = "num" -> c
      [] c.k = "str" -> ParseNumber(c.v)
      [] OTHER       -> Null

FillNaZero(c) == IF IsNull(c) THEN Zero ELSE c

\* str(x) of a cell value, as Series.astype(str) applies it.  A number is
\* rendered as a float64 column renders it ("85.0"); numerals of an int64
\* column ("85") parse back to the same number.
AsTypeStr(c) ==
    CASE c.k = "null" -> Str(<<"n", "a", "n">>)
      [] c.k = "num"  -> Str(IF DotAt(c.v) = 0 THEN c.v \o <<".", "0">> ELSE c.v)
      [] c.k = "ts"   -> Str(c.v \o <<" ", "0", "0", ":", "0", "0", ":", "0", "0">>)
      [] OTHER        -> Str(c.v)

\* Series.str.replace("%", ""): every "%" of the text is removed.
StrReplacePct(c) == Str(SelectSeq(c.v, LAMBDA ch : ch # "%"))

\* Series.replace("nan", ""): a cell that is exactly "nan" becomes "".
ReplaceNan(c) == IF c = Str(<<"n", "a", "n">>) THEN Str(<<>>) ELSE c

NormalizeNumericCell(c) == FillNaZero(ToNumeric(c))

NormalizePctCell(c) == FillNaZero(ToNumeric(ReplaceNan(StrReplacePct(AsTypeStr(c)))))

(***************************************************************************)
(* Dates: ISO text YYYY-MM-DD.                                             *)
(***************************************************************************)
Months == { <<"0", d>> : d \in Digits \ {"0"} } \cup { <<"1", "0">>, <<"1", "1">>, <<"1", "2">> }

Days == ({ <<a, b>> : a \in {"0", "1", "2"}, b \in Digits } \ { <<"0", "0">> })
            \cup { <<"3", "0">>, <<"3", "1">> }

IsIsoDate(s) ==
    /\ Len(s) = 10
    /\ s[5] = "-" /\ s[8] = "-"
    /\ AllIn(SubSeq(s, 1, 4), Digits)
    /\ SubSeq(s, 6, 7) \in Months
    /\ SubSeq(s, 9, 10) \in Days

Epoch == <<"1", "9", "7", "0", "-", "0", "1", "-", "0", "1">>

\* Can pd.to_datetime parse this cell without errors="coerce"?
DateParses(c) == c.k \in {"null", "date", "ts", "num"} \/ (c.k = "str" /\ IsIsoDate(c.v))

\* pd.to_datetime(cell) for a parseable cell: a Timestamp (or NaT).  A small
\* number is a count of nanoseconds after the epoch.
ToDatetimeCell(c) ==
    CASE c.k = "null" -> Null
      [] c.k = "date" -> Timestamp(c.v)
      [] c.k = "ts"   -> c
      [] c.k = "num"  -> Timestamp(Epoch)
      [] OTHER        -> Timestamp(c.v)

\* pd.to_datetime(cell, errors="coerce"): an unparseable cell becomes NaT.
CoerceDatetimeCell(c) == IF DateParses(c) THEN ToDatetimeCell(c) ELSE Null

\* Series.dt.date: Timestamp -> datetime.date, NaT stays NaT.
DtDate(c) == IF c.k = "ts" THEN DateObj(c.v) ELSE c

(***************************************************************************)
(* Tables: [columns: sequence of column names, rows: sequence of rows],    *)
(* a row being a function from the table's columns to cells.               *)
(***************************************************************************)
ColSet(df) == { df.columns[i] : i \in DOMAIN df.columns }

Column(df, col) == [i \in DOMAIN df.rows |-> df.rows[i][col]]

EmptyFrame == [columns |-> REQUIRED_COLUMNS, rows |-> <<>>]

\* Lines 48-50: df[col] = None for a schema column the table lacks; the cell of
\* row i in column col after that loop.
CellOrNone(df, i, col) == IF col \in ColSet(df) THEN df.rows[i][col] ELSE Null

\* The fallback of line 58 without its .dt.date.
ParseDateColumnKeepsTimestamp(cells) ==
    IF \A i \in DOMAIN cells : DateParses(cells[i])
    THEN [i \in DOMAIN cells |-> DtDate(ToDatetimeCell(cells[i]))]
    ELSE [i \in DOMAIN cells |-> CoerceDatetimeCell(cells[i])]

\* Lines 54-58: pd.to_datetime(df["Date"]).dt.date, and when that raises on an
\* unparseable cell, the same with errors="coerce" (the cell becomes NaT).
ParseDateColumn(cells) ==
    IF \A i \in DOMAIN cells : DateParses(cells[i])
    THEN [i \in DOMAIN cells |-> DtDate(ToDatetimeCell(cells[i]))]
    ELSE [i \in DOMAIN cells |-> DtDate(CoerceDatetimeCell(cells[i]))]

\* Lines 46-74.  The numeric columns (lines 61-66) and the two percentage
\* columns (lines 69-72) are disjoint, so each cell is converted once; the
\* result is df[REQUIRED_COLUMNS].
clean_and_normalize(df) ==
    LET dates == ParseDateColumn([i \in DOMAIN df.rows |-> CellOrNone(df, i, "Date")])
    IN  [columns |-> REQUIRED_COLUMNS,
         rows    |-> [i \in DOMAIN df.rows |->
                        [c \in RequiredSet |->
                            CASE c = "Date"        -> dates[i]
                              [] c \in NumericSet -> NormalizeNumericCell(CellOrNone(df, i, c))
                              [] c \in PctSet     -> NormalizePctCell(CellOrNone(df, i, c))
                              [] OTHER             -> CellOrNone(df, i, c)]]]

(***************************************************************************)
(* Input tables of the normalizer.  One column of the table (the focus     *)
(* column) takes every combination of raw cells; the table has its columns *)
(* in schema order, reversed, without the focus column, or with a column   *)
(* the schema does not know.                                               *)
(***************************************************************************)
S_NA == <<"N", "/", "A">>

S_nan == <<"n", "a", "n">>

S_85pct == <<"8", "5", "%">>

S_085 == <<"0", "8", "5">>

S_8_50 == <<"8", ".", "5", "0">>

S_10 == <<"1", "0">>

D_0101 == <<"2", "0", "2", "4", "-", "0", "1", "-", "0", "1">>

D_0102 == <<"2", "0", "2", "4", "-", "0", "1", "-", "0", "2">>

D_bad == <<"2", "0", "2", "4", "-", "1", "3", "-", "0", "1">>

Variants == {"schema", "reversed", "missing", "extra"}

Reverse(s) == [i \in DOMAIN s |-> s[Len(s) + 1 - i]]

RawDateCells == {Null, Str(D_0101), Str(D_bad), Str(S_NA), DateObj(D_0102), Timestamp(D_0101)}

RawNameCells == {Null, Str(<<"A">>), Str(<<"B">>)}

RawValueCells ==
    {Null, Num(S_10), Str(S_NA), Str(S_85pct), Str(S_nan), Str(<<>>), Str(S_085), Str(S_8_50)}

CellsFor(col) ==
    CASE col = "Date"          -> RawDateCells
      [] col = "Employee Name" -> RawNameCells
      [] OTHER                 -> RawValueCells

BaseCell(col) ==
    CASE col = "Date"          -> Str(D_0101)
      [] col = "Employee Name" -> Str(<<"A">>)
      [] OTHER                 -> Num(S_10)

InputTable(focus, cells, variant) ==
    LET cols == CASE variant = "schema"   -> REQUIRED_COLUMNS
                  [] variant = "reversed" -> Reverse(REQUIRED_COLUMNS)
                  [] variant = "missing"  -> SelectSeq(REQUIRED_COLUMNS, LAMBDA c : c # focus)
                  [] OTHER                -> <<"Remarks">> \o REQUIRED_COLUMNS
        cset == { cols[i] : i \in DOMAIN cols }
    IN  [columns |-> cols,
         rows    |-> [i \in DOMAIN cells |->
                        [c \in cset |->
                            IF c = focus THEN cells[i]
                            ELSE IF c \in RequiredSet THEN BaseCell(c)
                            ELSE Str(<<"x">>)]]]

NoTable == [columns |-> <<>>, rows |-> <<>>]

(***************************************************************************)
(* The spreadsheet file.  A sheet holds blank cells, numbers, text and     *)
(* datetimes; it has no date-without-time cell.                            *)
(***************************************************************************)
\* DataFrame.to_excel on one cell: a datetime.date is stored as a datetime.
ToExcelCell(c) == IF c.k = "date" THEN Timestamp(c.v) ELSE c

to_excel(df) ==
    [columns |-> df.columns,
     rows    |-> [i \in DOMAIN df.rows |->
                    [c \in ColSet(df) |-> ToExcelCell(df.rows[i][c])]]]

\* The texts pd.read_excel reads as missing values (keep_default_na).
NaStrings ==
    { <<"-", "1", ".", "#", "I", "N", "D">>,
      <<"1", ".", "#", "Q", "N", "A", "N">>,
      <<"1", ".", "#", "I", "N", "D">>,
      <<"-", "1", ".", "#", "Q", "N", "A", "N">>,
      <<"#", "N", "/", "A", " ", "N", "/", "A">>,
      <<"#", "N", "/", "A">>,
      <<"N", "/", "A">>,
      <<"n", "/", "a">>,
      <<"N", "A">>,
      <<"<", "N", "A", ">">>,
      <<"#", "N", "A">>,
      <<"N", "U", "L", "L">>,
      <<"n", "u", "l", "l">>,
      <<"N", "a", "N">>,
      <<"-", "N", "a", "N">>,
      <<"n", "a", "n">>,
      <<"-", "n", "a", "n">>,
      <<"N", "o", "n", "e">>,
      <<>> }

\* pd.read_excel on one column: texts that mean "missing" become NaN, and a
\* column whose remaining cells are all numbers or numerals becomes numeric.
FromExcelColumn(cells) ==
    LET s1  == [i \in DOMAIN cells |->
                  IF cells[i].k = "str" /\ cells[i].v \in NaStrings THEN Null ELSE cells[i]]
        num == \A i \in DOMAIN s1 :
                  \/ s1[i].k \in {"null", "num"}
                  \/ (s1[i].k = "str" /\ ParseNumber(s1[i].v) # Null)
    IN  IF num
        THEN [i \in DOMAIN s1 |-> IF s1[i].k = "str" THEN ParseNumber(s1[i].v) ELSE s1[i]]
        ELSE s1

read_excel(sheet) ==
    LET cols == [c \in ColSet(sheet) |-> FromExcelColumn(Column(sheet, c))]
    IN  [columns |-> sheet.columns,
         rows    |-> [i \in DOMAIN sheet.rows |-> [c \in ColSet(sheet) |-> cols[c][i]]]]

\* read_master, given whether pd.read_excel raises on the file (it is cut
\* short, locked or unreadable): line 33 catches whatever is raised.
ReadRaises(file, raises) == file.st = "corrupt" \/ (file.st = "ok" /\ raises)

read_master(file, raises) ==
    IF file.st = "absent" \/ ReadRaises(file, raises)
    THEN EmptyFrame
    ELSE read_excel(file.sheet)

\* save_master: the file after df.to_excel, by the outcome of the write.  A
\* write that raises leaves the old file or a file cut short.
save_master(file, df, outcome) ==
    CASE outcome = "ok"             -> [st |-> "ok", sheet |-> to_excel(df)]
      [] outcome = "fail_untouched" -> file
      [] OTHER                      -> [st |-> "corrupt", sheet |-> EmptyFrame]

WriteOutcomes == {"ok", "fail_untouched", "fail_partial"}

(***************************************************************************)
(* append_to_master                                                        *)
(***************************************************************************)
\* Equality of two cells of one column as DataFrame.duplicated sees it: all
\* missing values are one value, numbers compare by value, and a Timestamp
\* and a datetime.date of the same day are different objects.
CellEq(a, b) == a.k = b.k /\ a.v = b.v

RowEq(r1, r2) == \A c \in RequiredSet : CellEq(r1[c], r2[c])

\* drop_duplicates(keep="first")
DropDuplicatesKeepFirst(rows) ==
    LET keep == { i \in DOMAIN rows : \A j \in 1..(i - 1) : ~RowEq(rows[i], rows[j]) }
        F[n \in 0..Len(rows)] ==
            IF n = 0 THEN <<>>
            ELSE IF n \in keep THEN Append(F[n - 1], rows[n]) ELSE F[n - 1]
    IN  F[Len(rows)]

\* drop_duplicates(subset=REQUIRED_COLUMNS, keep="last")
DropDuplicates(rows) ==
    LET keep == { i \in DOMAIN rows : \A j \in (i + 1)..Len(rows) : ~RowEq(rows[i], rows[j]) }
        F[n \in 0..Len(rows)] ==
            IF n = 0 THEN <<>>
            ELSE IF n \in keep THEN Append(F[n - 1], rows[n]) ELSE F[n - 1]
    IN  F[Len(rows)]

\* The table append_to_master builds from the master it read and the upload.
Combined(master, new_df) ==
    IF master.rows = <<>>
    THEN new_df
    ELSE [columns |-> REQUIRED_COLUMNS,
          rows    |-> DropDuplicates(master.rows \o new_df.rows)]

(***************************************************************************)
(* State of the store model.                                               *)
(*   masterFile      data/master_data.xlsx: absent, a sheet, or cut short  *)
(*   ui              the messages the last script run showed               *)
(*   last            what the last run read, computed and was given        *)
(***************************************************************************)
ManualCols == {"Cons Count", "Audit Count", "Fatal Count"}

NoFile == [st |-> "absent", sheet |-> EmptyFrame]

NoLast ==
    [op |-> "none", readRaised |-> FALSE, write |-> "none",
     R |-> <<>>, N |-> <<>>, out |-> <<>>, before |-> NoFile,
     emp |-> Null, dt |-> Null, entered |-> <<Null, Null, Null>>,
     mask |-> {}, submitted |-> FALSE]

\* A record without its manual counters.
KeyOf(row) == [c \in RequiredSet |-> IF c \in ManualCols THEN Null ELSE row[c]]

\* The rows the master file holds, as pd.read_excel returns them.
Stored(file) == IF file.st = "ok" THEN read_excel(file.sheet).rows ELSE <<>>

StoreInit ==
    /\ masterFile = NoFile
    /\ ui = {}
    /\ last = NoLast

NormIdle ==
    /\ raw = NoTable
    /\ once = NoTable
    /\ twice = NoTable
    /\ nstep = 0

Init == StoreInit /\ NormIdle

(***************************************************************************)
(* Uploaded sheets: one to MaxBatch rows of a daily report.                *)
(***************************************************************************)
SheetRow(date, name, cons) ==
    [c \in RequiredSet |->
        CASE c = "Date"                         -> date
          [] c = "Employee Name"                -> name
          [] c = "Cons Count"                   -> cons
          [] c \in {"Audit Count", "Fatal Count"} -> Zero
          [] c = "Completed %"                  -> Str(S_85pct)
          [] OTHER                              -> Num(S_10)]

UploadRows ==
    { SheetRow(Timestamp(D_0101), Str(<<"A">>), Zero),
      SheetRow(Timestamp(D_0101), Str(<<"A">>), Num(<<"3">>)),
      SheetRow(Str(S_NA), Str(<<"B">>), Zero) }

UploadSheets ==
    { [columns |-> REQUIRED_COLUMNS, rows |-> rs] :
        rs \in UNION { [1..n -> UploadRows] : n \in 1..MaxBatch } }

\* What the form's three number inputs hold when it is submitted.
NotEntered == <<Zero, Zero, Zero>>

EnteredCounts == { NotEntered, <<Num(<<"5">>), Zero, Num(<<"1">>)>> }

(***************************************************************************)
(* A script run.  Streamlit runs the script from the top on every user     *)
(* interaction: the page of the run before is cleared, the navigation      *)
(* radio is read and one page's code runs.                                 *)
(***************************************************************************)
Idle == last.op = "none"

Rerun ==
    /\ ~Idle
    /\ ui' = {}
    /\ last' = NoLast
    /\ UNCHANGED masterFile
    /\ UNCHANGED normVars

(***************************************************************************)
(* Page: Upload Data                                                       *)
(***************************************************************************)
\* The uploaded file cannot be parsed: line 126.
UploadUnreadable ==
    /\ Idle
    /\ ui' = {"error_upload"}
    /\ last' = [NoLast EXCEPT !.op = "upload_failed", !.before = masterFile]
    /\ UNCHANGED masterFile
    /\ UNCHANGED normVars

\* The file is loaded and shown, the button is not pressed: lines 119-120.
UploadPreview ==
    /\ Idle
    /\ ui' = {"success_loaded"}
    /\ last' = [NoLast EXCEPT !.op = "preview", !.before = masterFile]
    /\ UNCHANGED masterFile
    /\ UNCHANGED normVars

\* "Append to master data" is pressed: append_to_master and lines 122-124.
UploadAppend(sheet, raises, outcome) ==
    LET new_raw  == read_excel(sheet)
        master   == read_master(masterFile, raises)
        new_df   == clean_and_normalize(new_raw)
        combined == Combined(master, new_df)
        file2    == save_master(masterFile, combined, outcome)
    IN  /\ Idle
        /\ raises => masterFile.st = "ok"
        /\ Len(combined.rows) <= MaxMaster
        /\ masterFile' = file2
        /\ ui' = {"success_loaded", "success_appended"}
                   \cup (IF ReadRaises(masterFile, raises) THEN {"error_read"} ELSE {})
                   \cup (IF outcome # "ok" THEN {"error_save"} ELSE {})
        /\ last' = [NoLast EXCEPT !.op = "append",
                                  !.readRaised = ReadRaises(masterFile, raises),
                                  !.write = outcome,
                                  !.R = master.rows, !.N = new_df.rows,
                                  !.out = combined.rows, !.before = masterFile]
        /\ UNCHANGED normVars

(***************************************************************************)
(* Page: View Data                                                         *)
(***************************************************************************)
ViewData(raises) ==
    LET master == read_master(masterFile, raises)
    IN  /\ Idle
        /\ raises => masterFile.st = "ok"
        /\ ui' = (IF master.rows = <<>> THEN {"info_no_data"} ELSE {"table"})
                   \cup (IF ReadRaises(masterFile, raises) THEN {"error_read"} ELSE {})
        /\ last' = [NoLast EXCEPT !.op = "view",
                                  !.readRaised = ReadRaises(masterFile, raises),
                                  !.R = master.rows, !.before = masterFile]
        /\ UNCHANGED masterFile
        /\ UNCHANGED normVars

(***************************************************************************)
(* Page: Manual Entry                                                      *)
(***************************************************************************)
\* master["Employee Name"] == emp on one row.
NameIs(row, emp) == ~IsNull(emp) /\ CellEq(row["Employee Name"], emp)

\* sorted(master["Employee Name"].dropna().unique().tolist())
EmployeesOf(rows) ==
    { rows[i]["Employee Name"] : i \in { j \in DOMAIN rows : ~IsNull(rows[j]["Employee Name"]) } }

\* master[master["Employee Name"] == emp]["Date"].dropna().unique()
DatesOf(rows, emp) ==
    { rows[i]["Date"] : i \in { j \in DOMAIN rows : NameIs(rows[j], emp) /\ ~IsNull(rows[j]["Date"]) } }

\* The ways Series.unique().tolist() hands over a datetime64 value: as a count
\* of nanoseconds (unique() gives a numpy array) or as a pandas.Timestamp
\* (unique() gives a DatetimeArray).
ToListKinds == {"int", "Timestamp"}

\* One cell of master["Date"] == d for a datetime.date d: a datetime64 value
\* (a Timestamp) is never equal to a datetime.date.
EqDate(cell, d) == cell.k = "date" /\ cell.v = d.v

\* Line 249, when it does not raise: the rows of emp whose Date equals the
\* datetime.date of the chosen entry.
Mask(rows, emp, dt) ==
    { i \in DOMAIN rows :
        NameIs(rows[i], emp) /\ EqDate(rows[i]["Date"], DtDate(ToDatetimeCell(dt))) }

\* Lines 259-261.
SetCounts(rows, mask, entered) ==
    [i \in DOMAIN rows |->
        IF i \in mask
        THEN [rows[i] EXCEPT !["Cons Count"] = entered[1],
                             !["Audit Count"] = entered[2],
                             !["Fatal Count"] = entered[3]]
        ELSE rows[i]]

ManualEntry(raises, tolist, entered, submitted, outcome) ==
    LET master == read_master(masterFile, raises)
        rows   == master.rows
        emps   == IF EmployeesOf(rows) = {} THEN {Null} ELSE EmployeesOf(rows)
    IN  /\ Idle
        /\ raises => masterFile.st = "ok"
        /\ \E emp \in emps :
             LET dates == IF DatesOf(rows, emp) = {} THEN {Null} ELSE DatesOf(rows, emp)
             IN  \E dt \in dates :
                   LET \* isinstance(dt, pd.Timestamp): line 249 is then Series & date
                       raised249 == dt.k = "ts" /\ tolist = "Timestamp"
                       formShown == rows # <<>> /\ ~IsNull(dt) /\ ~raised249
                       mask      == IF formShown THEN Mask(rows, emp, dt) ELSE {}
                       saves     == formShown /\ submitted
                       updated   == [master EXCEPT !.rows = SetCounts(rows, mask, entered)]
                   IN  /\ masterFile' = IF saves
                                        THEN save_master(masterFile, updated, outcome)
                                        ELSE masterFile
                       /\ ui' = (IF ReadRaises(masterFile, raises) THEN {"error_read"} ELSE {})
                                  \cup (CASE rows = <<>>  -> {"info_no_data"}
                                          [] IsNull(dt)   -> {"warning_no_dates"}
                                          [] raised249    -> {"exception"}
                                          [] ~submitted   -> {"form"}
                                          [] OTHER        ->
                                               {"form", "success_manual"}
                                                 \cup (IF outcome # "ok" THEN {"error_save"} ELSE {}))
                       /\ last' = [NoLast EXCEPT !.op = "manual",
                                                 !.readRaised = ReadRaises(masterFile, raises),
                                                 !.write = IF saves THEN outcome ELSE "none",
                                                 !.R = rows,
                                                 !.out = IF saves THEN updated.rows ELSE <<>>,
                                                 !.before = masterFile,
                                                 !.emp = emp, !.dt = dt,
                                                 !.entered = entered,
                                                 !.mask = mask, !.submitted = saves]
                       \* inputs the run does not read are kept at one value
                       /\ ~formShown => ~submitted
                       /\ ~saves => (outcome = "ok" /\ entered = NotEntered)
                       /\ dt.k # "ts" => tolist = "int"
        /\ UNCHANGED normVars

Next ==
    \/ Rerun
    \/ UploadUnreadable
    \/ UploadPreview
    \/ \E sheet \in UploadSheets, raises \in BOOLEAN, outcome \in WriteOutcomes :
          UploadAppend(sheet, raises, outcome)
    \/ \E raises \in BOOLEAN : ViewData(raises)
    \/ \E raises \in BOOLEAN, tolist \in ToListKinds, entered \in EnteredCounts,
          submitted \in BOOLEAN, outcome \in WriteOutcomes :
          ManualEntry(raises, tolist, entered, submitted, outcome)

Spec == Init /\ [][Next]_vars

(***************************************************************************)
(* The normalizer alone: clean_and_normalize applied to an input table,    *)
(* and applied again to its own result.                                    *)
(***************************************************************************)
InitNorm ==
    /\ StoreInit
    /\ \E focus \in RequiredSet, variant \in Variants :
         \E cells \in [1..MaxRawRows -> CellsFor(focus)] :
            raw = InputTable(focus, cells, variant)
    /\ once = NoTable
    /\ twice = NoTable
    /\ nstep = 0

NormalizeOnce ==
    /\ nstep = 0
    /\ once' = clean_and_normalize(raw)
    /\ nstep' = 1
    /\ UNCHANGED <<raw, twice>>
    /\ UNCHANGED storeVars

NormalizeAgain ==
    /\ nstep = 1
    /\ twice' = clean_and_normalize(once)
    /\ nstep' = 2
    /\ UNCHANGED <<raw, once>>
    /\ UNCHANGED storeVars

NextNorm == NormalizeOnce \/ NormalizeAgain

SpecNorm == InitNorm /\ [][NextNorm]_vars

(***************************************************************************)
(* Properties                                                              *)
(***************************************************************************)
WriteFailed == last.write \in {"fail_untouched", "fail_partial"}

\* Two rows hold the same values in all schema columns, whichever Python type
\* (datetime.date or Timestamp) holds the day.
SameRecord(r1, r2) == \A c \in RequiredSet : ToExcelCell(r1[c]) = ToExcelCell(r2[c])

\* C1: after append_to_master(N) on a store that was read and is written, a row
\* of N that is identical on all schema columns to a row already persisted is
\* in the persisted store exactly once (appending a batch a second time adds
\* no row).
C1_DuplicateOfPersistedRowStoredOnce ==
    (last.op = "append" /\ last.write = "ok" /\ ~last.readRaised) =>
        \A i \in DOMAIN last.N :
            (\E j \in DOMAIN last.R : SameRecord(last.R[j], last.N[i])) =>
                Cardinality({ j \in DOMAIN Stored(masterFile) :
                                SameRecord(Stored(masterFile)[j], last.N[i]) }) = 1

\* C2: a run whose write of the master file does not fail (an append, a manual
\* update or a read, also one where read_master returned an empty table)
\* leaves every record the store held in the store, unchanged or changed only
\* in its three manual counters.
C2_PersistedRecordsAreKept ==
    (~Idle /\ ~WriteFailed) =>
        \A j \in DOMAIN Stored(last.before) :
            \E i \in DOMAIN Stored(masterFile) :
                KeyOf(Stored(masterFile)[i]) = KeyOf(Stored(last.before)[j])

\* C3: the table append_to_master writes and returns has no two rows whose
\* values match on all schema columns, whatever the store and the batch.
C3_AppendResultHasNoDuplicates ==
    last.op = "append" =>
        \A i, j \in DOMAIN last.out : i # j => ~RowEq(last.out[i], last.out[j])

RECURSIVE IsSubsequence(_, _)
IsSubsequence(a, b) ==
    IF a = <<>> THEN TRUE
    ELSE IF b = <<>> THEN FALSE
    ELSE IF Head(a) = Head(b) THEN IsSubsequence(Tail(a), Tail(b))
    ELSE IsSubsequence(a, Tail(b))

Occurs(row, rows) == \E m \in DOMAIN rows : RowEq(rows[m], row)

C5_WriteFailureIsHandled ==
    WriteFailed =>
        /\ "error_save" \in ui
        /\ masterFile = last.before
        /\ ui \cap {"success_appended", "success_manual"} = {}

\* C6: a submitted manual entry whose row mask matches no row of the master
\* does not end in a success message.
C6_NoMatchIsSignalled ==
    (last.op = "manual" /\ last.submitted /\ last.mask = {}) => "success_manual" \notin ui

ClaimedNumeric ==
    { "Overall Calls", "Completed Calls", "Incoming Calls", "Incoming completed call",
      "Outbound Calls", "Missed Calls", "Login Hours", "Cons Count", "Audit Count",
      "Fatal Count", "Total Points", "Achieve Points" }

\* C7: clean_and_normalize returns a number in every declared numeric column of
\* every row, and 0 where the input cell is null, missing or no number.
C7_NumericColumnsAreNumbers ==
    nstep >= 1 =>
        \A i \in DOMAIN once.rows : \A c \in ClaimedNumeric :
            /\ once.rows[i][c].k = "num"
            /\ ToNumeric(CellOrNone(raw, i, c)) = Null => once.rows[i][c] = Zero

ClaimedPercent == { "Completed %", "Incoming %", "Productivity%" }

\* The text is a run of digits followed by one "%".
IsPercentText(s) == Len(s) >= 2 /\ s[Len(s)] = "%" /\ IsDigits(SubSeq(s, 1, Len(s) - 1))

\* C8: in each of the three percentage columns clean_and_normalize maps a
\* number followed by "%" to that number, and "nan", "" and any other text
\* that is no number to 0.
C8_PercentagesAreStripped ==
    nstep >= 1 =>
        \A i \in DOMAIN once.rows : \A c \in ClaimedPercent :
            LET x == CellOrNone(raw, i, c)
            IN  /\ (x.k = "str" /\ IsPercentText(x.v)) =>
                      once.rows[i][c] = ParseNumber(SubSeq(x.v, 1, Len(x.v) - 1))
                /\ (x.k = "str" /\ ~IsPercentText(x.v) /\ ParseNumber(x.v) = Null) =>
                      once.rows[i][c] = Zero

\* C9: clean_and_normalize applied to its own result returns that result, row
\* for row and column for column.
C9_NormalizeIsIdempotent == nstep = 2 => twice = once

\* A table normalized twice whose columns were not in schema order, or not
\* all there, and whose Date column held a cell that does not parse.
C9_Witness ==
    /\ nstep = 2
    /\ raw.columns # REQUIRED_COLUMNS
    /\ "Date" \in ColSet(raw)
    /\ \E i \in DOMAIN raw.rows : ~DateParses(raw.rows[i]["Date"])
    /\ once # raw

\* The cell holds the day of the chosen entry.
SameDay(cell, dt) == ~IsNull(cell) /\ ToExcelCell(cell) = ToExcelCell(dt)

\* C10: a submitted manual update that is written sets the three counters to
\* the entered values on every row whose Employee Name and Date match the
\* selection, and leaves every other row, every other column and the number
\* and order of the rows as they were.
C10_ManualUpdateSetsMatchingRows ==
    (last.op = "manual" /\ last.submitted /\ last.write = "ok") =>
        LET old == Stored(last.before)
            new == Stored(masterFile)
        IN  /\ Len(new) = Len(old)
            /\ \A i \in DOMAIN old :
                  new[i] = IF NameIs(old[i], last.emp) /\ SameDay(old[i]["Date"], last.dt)
                           THEN [old[i] EXCEPT !["Cons Count"] = last.entered[1],
                                               !["Audit Count"] = last.entered[2],
                                               !["Fatal Count"] = last.entered[3]]
                           ELSE old[i]

====
